---- MODULE Spec2Model ----
\* API gateway of AI Fusion Core (src/main.py): the service registry, the
\* startup sequence (connection initialisation, health sweep), the manual
\* health check endpoint and the health-aware routing middleware.
\*
\* Scheduling: one asyncio event loop.  Code between two awaits that suspend
\* runs without interruption, so every action below is the code from one
\* suspension point to the next.  Suspension points are the network awaits:
\* channel_ready(), client.get("/health"), request.body() and the forwarded
\* client.post()/client.request().
EXTENDS Integers, Sequences, FiniteSets, TLC

\* ---------------------------------------------------------------- bounds
\* number of manual health checks a behaviour may start
MaxChecks == 3
\* manual-check requests that may be in flight at once
Checkers == {"m1", "m2"}
\* routed requests that may be in flight at once
Routers == {"r1"}
\* times the application may be started in one process
MaxStartups == 2

\* ------------------------------------------------------------ constants
\* ServiceStatus (src/main.py:33-37), by enum value
HEALTHY == "healthy"
UNHEALTHY == "unhealthy"
DISCONNECTED == "disconnected"
STARTING == "starting"
ServiceStatus == {HEALTHY, UNHEALTHY, DISCONNECTED, STARTING}

\* max_failures of health_check_services
max_failures == 3

\* max_failures of manual_health_check
manual_max_failures == 3

\* last_health_check = None
None == 0

\* get_service_config: the configured services in dict order.  The model
\* keeps the four services the middleware routes to (three required, one
\* not); conversational, automation, vision and plugin are configured like
\* analytics (not required), are never routed to and take the same code
\* paths in startup, sweep and manual check.
ServiceConfig ==
    << [name |-> "ai-kernel",      grpc_port |-> 50051, http_port |-> 8001, required |-> TRUE],
       [name |-> "identity",       grpc_port |-> 50052, http_port |-> 8002, required |-> TRUE],
       [name |-> "cv-engine",      grpc_port |-> 50053, http_port |-> 8003, required |-> TRUE],
       [name |-> "analytics",      grpc_port |-> 50055, http_port |-> 8005, required |-> FALSE] >>

NumServices == Len(ServiceConfig)
ConfigNames == {ServiceConfig[i].name : i \in 1..NumServices}

\* ServiceInfo(name, host, grpc_port, http_port, status=STARTING): the
\* dataclass defaults give last_health_check None and health_check_failures 0
ServiceInfo(cfg) ==
    [name |-> cfg.name, host |-> "HOST", grpc_port |-> cfg.grpc_port,
     http_port |-> cfg.http_port, status |-> STARTING,
     last_health_check |-> None, health_check_failures |-> 0]

\* ---------------------------------------------------------------- paths
\* A URL path is the sequence of its tokens, "/" being a token of its own:
\* "/api/v1/cv/templates" is <<"/","api","/","v1","/","cv","/","templates">>.
P(a, b, c, rest) == <<"/", a, "/", b, "/", c, "/">> \o rest

\* a request: its method, request.url.path and the bytes request.body() gives
Request(m, p, b) == [method |-> m, path |-> p, body |-> b]

\* the requests sent to the gateway
Requests ==
    { Request("GET", P("api", "v1", "ai", <<"chat">>), "b1"),
      Request("POST", P("api", "v1", "auth", <<"login">>), "b1"),
      Request("GET", P("api", "v1", "users", <<"me">>), ""),
      Request("GET", P("api", "v1", "cv", <<"templates">>), ""),
      Request("GET", P("api", "v1", "analytics", <<"report">>), "b1"),
      Request("GET", <<"/", "health">>, "") }

\* str.startswith
StartsWith(s, pre) ==
    /\ Len(s) >= Len(pre)
    /\ SubSeq(s, 1, Len(pre)) = pre

\* str.replace(old, ""): every non-overlapping occurrence, left to right
RECURSIVE Remove(_, _)
Remove(s, old) ==
    IF Len(s) < Len(old) THEN s
    ELSE IF StartsWith(s, old) THEN Remove(SubSeq(s, Len(old) + 1, Len(s)), old)
    ELSE <<Head(s)>> \o Remove(Tail(s), old)

\* "x" in path
Contains(s, tok) == \E i \in 1..Len(s) : s[i] = tok

Prefix(a, b, c) == <<"/", a, "/", b, "/", c, "/">>

\* ---------------------------------------------------------------- state
VARIABLES
    lifespan,          \* "on": the server runs the lifespan protocol; "off": it does not
    phase,             \* "created", "connecting", "sweeping", "serving", "aborted"
    idx,               \* loop position of initialize_service_connections / health_check_services
    sweep_pc,          \* await the sweep is suspended at: "ready", "http", "none"
    service_registry,  \* name -> ServiceInfo, for the registered names
    grpc_channels,     \* names that have a gRPC channel
    http_clients,      \* names that have an HTTP client
    now,               \* last value datetime.utcnow() returned
    checks,            \* manual health checks started so far
    check_pc,          \* per manual check: "idle", "ready", "http", "done"
    check_name,        \* per manual check: the service_name path parameter
    check_seq,         \* history: per manual check, its rank by arrival among the
                       \* checks in flight, 0 when idle
    check_resp,        \* per manual check: the response
    route_pc,          \* per routed request: "idle", "body", "call", "done"
    route_req,         \* per routed request: [method, path, body]
    route_svc,         \* per routed request: service_name passed to route_to_service
    route_resp,        \* per routed request: the response
    route_calls,       \* per routed request: outbound calls issued, oldest first
    route_reply,       \* per routed request: what the backend did with the call
    streak,            \* history: failed probes recorded per service since its last
                       \* recorded success (or since registration)
    sweep_probes,      \* history: per configured name, the probes the start-up sweep
                       \* has begun (its try block reached a network await)
    startups           \* history: the times the startup half of lifespan() was entered

vars == << lifespan, phase, idx, sweep_pc, service_registry, grpc_channels,
           http_clients, now, checks, check_pc, check_name, check_seq,
           check_resp,
           route_pc, route_req, route_svc, route_resp, route_calls, route_reply,
           streak, sweep_probes, startups >>

startupVars == << phase, idx, sweep_pc, sweep_probes, startups >>
poolVars == << grpc_channels, http_clients >>
registryVars == << service_registry, now, streak >>
checkVars == << checks, check_pc, check_name, check_seq, check_resp >>
routeVars == << route_pc, route_req, route_svc, route_resp, route_calls, route_reply >>

Registered == DOMAIN service_registry

NoResponse == [status |-> 0, body |-> <<>>]
NoRequest == [method |-> "", path |-> <<>>, body |-> ""]
NoReply == [kind |-> "", status |-> 0, content |-> ""]

Init ==
    /\ lifespan \in {"on", "off"}
    /\ phase = "created"
    /\ idx = 1
    /\ sweep_pc = "none"
    /\ service_registry = << >>
    /\ grpc_channels = {}
    /\ http_clients = {}
    /\ now = 0
    /\ checks = 0
    /\ check_pc = [c \in Checkers |-> "idle"]
    /\ check_name = [c \in Checkers |-> ""]
    /\ check_seq = [c \in Checkers |-> 0]
    /\ check_resp = [c \in Checkers |-> NoResponse]
    /\ route_pc = [r \in Routers |-> "idle"]
    /\ route_req = [r \in Routers |-> NoRequest]
    /\ route_svc = [r \in Routers |-> ""]
    /\ route_resp = [r \in Routers |-> NoResponse]
    /\ route_calls = [r \in Routers |-> <<>>]
    /\ route_reply = [r \in Routers |-> NoReply]
    /\ streak = [n \in ConfigNames |-> 0]
    /\ sweep_probes = [n \in ConfigNames |-> 0]
    /\ startups = 0

\* ------------------------------------------------------ registry updates
\* datetime.utcnow(): every reading is later than the one before
UtcNow == now + 1

\* the success branch of a probe: status, last_health_check and
\* health_check_failures are assigned with no await in between
record_success(info, t) ==
    [info EXCEPT !.status = HEALTHY,
                 !.last_health_check = t,
                 !.health_check_failures = 0]

\* variant: unhealthy one failure early
handle_failure_early(info, t, maxf) ==
    LET n == info.health_check_failures + 1 IN
    [info EXCEPT !.health_check_failures = n,
                 !.last_health_check = t,
                 !.status = IF n >= maxf - 1 THEN UNHEALTHY ELSE DISCONNECTED]

\* variant: > for >=
handle_failure_late(info, t, maxf) ==
    LET n == info.health_check_failures + 1 IN
    [info EXCEPT !.health_check_failures = n,
                 !.last_health_check = t,
                 !.status = IF n > maxf THEN UNHEALTHY ELSE DISCONNECTED]

\* variant: the counter stops at the threshold
handle_failure_saturating(info, t, maxf) ==
    LET n == IF info.health_check_failures >= maxf
             THEN info.health_check_failures
             ELSE info.health_check_failures + 1 IN
    [info EXCEPT !.health_check_failures = n,
                 !.last_health_check = t,
                 !.status = IF n >= maxf THEN UNHEALTHY ELSE DISCONNECTED]

\* variant: a failure does not stamp the record
handle_failure_no_timestamp(info, t, maxf) ==
    LET n == info.health_check_failures + 1 IN
    [info EXCEPT !.health_check_failures = n,
                 !.status = IF n >= maxf THEN UNHEALTHY ELSE DISCONNECTED]

\* variant: a failure of an unhealthy service starts a new count
handle_failure_restarts(info, t, maxf) ==
    LET n == IF info.health_check_failures >= maxf
             THEN 1
             ELSE info.health_check_failures + 1 IN
    [info EXCEPT !.health_check_failures = n,
                 !.last_health_check = t,
                 !.status = IF n >= maxf THEN UNHEALTHY ELSE DISCONNECTED]

\* handle_service_health_failure: no await in its body, so the increment,
\* the timestamp and the status assignment are one step
handle_service_health_failure(info, t, maxf) ==
    LET n == info.health_check_failures + 1 IN
    [info EXCEPT !.health_check_failures = n,
                 !.last_health_check = t,
                 !.status = IF n >= maxf THEN UNHEALTHY ELSE DISCONNECTED]

ReadyOutcomes == {"ok", "timeout", "error"}
HttpOutcomes == {"200", "non200", "timeout", "error"}

\* wait_for(channel_ready(), timeout=5.0) raised: asyncio.TimeoutError or
\* another exception
ReadyFailed(outcome) == outcome # "ok"

\* variant: any response counts as a success
HttpFailed_accepts_any_response(outcome) == outcome \in {"timeout", "error"}

\* client.get("/health") raised, or response.status_code is not 200 and the
\* handler raises HTTPException itself
HttpFailed(outcome) == outcome # "200"

\* variant: a failed readiness wait is logged and not recorded
sweep_probe_ready_unrecorded(info, outcome, t) == info

\* health_check_services, the record of the probed service after the
\* readiness await: unchanged when the channel is ready, a recorded failure
\* when the await raised (both except branches call
\* handle_service_health_failure)
sweep_probe_ready(info, outcome, t) ==
    IF ReadyFailed(outcome)
    THEN handle_service_health_failure(info, t, max_failures)
    ELSE info

\* health_check_services, the record of the probed service after
\* client.get("/health")
sweep_probe_http(info, outcome, t) ==
    IF HttpFailed(outcome)
    THEN handle_service_health_failure(info, t, max_failures)
    ELSE record_success(info, t)

\* variant: the counter is not reset
manual_record_success_keeps_failures(info, t) ==
    [info EXCEPT !.status = HEALTHY, !.last_health_check = t]

\* variant: the manual check builds a fresh record for the service
manual_record_success_fresh(info, t) ==
    [name |-> info.name, host |-> "", grpc_port |-> 0, http_port |-> 0,
     status |-> HEALTHY, last_health_check |-> t, health_check_failures |-> 0]

\* variant: the manual check marks the service healthy and keeps the timestamp
manual_record_success_no_timestamp(info, t) ==
    [info EXCEPT !.status = HEALTHY, !.health_check_failures = 0]

\* variant: a success does not override a failure that another probe
\* recorded in the meantime
manual_record_success_yields_to_failure(info, t) ==
    IF info.health_check_failures > 0
    THEN [info EXCEPT !.last_health_check = t]
    ELSE [info EXCEPT !.status = HEALTHY,
                      !.last_health_check = t,
                      !.health_check_failures = 0]

\* manual_health_check, the 200 branch: status, timestamp and counter are
\* assigned without an await between them
manual_record_success(info, t) ==
    [info EXCEPT !.status = HEALTHY,
                 !.last_health_check = t,
                 !.health_check_failures = 0]

\* manual_health_check, the record of the checked service after the
\* readiness await; the except branch records the failure with the
\* handler's own max_failures
manual_probe_ready(info, outcome, t) ==
    IF ReadyFailed(outcome)
    THEN handle_service_health_failure(info, t, manual_max_failures)
    ELSE info

\* manual_health_check, the record of the checked service after
\* client.get("/health")
manual_probe_http(info, outcome, t) ==
    IF HttpFailed(outcome)
    THEN handle_service_health_failure(info, t, manual_max_failures)
    ELSE manual_record_success(info, t)

\* a probe of `name` wrote its record: the clock was read once, and the
\* history of consecutive failures follows
Stamp(name, failed) ==
    /\ now' = UtcNow
    /\ streak' = [streak EXCEPT ![name] = IF failed THEN @ + 1 ELSE 0]

\* ---------------------------------------------------------------- startup
\* lifespan: the server starts the application and runs the startup half;
\* after a shutdown the same application object can be started again (the
\* module globals keep what the run before left in them)
LifespanStartup ==
    /\ phase \in {"created", "stopped"}
    /\ lifespan = "on"
    /\ startups < MaxStartups
    /\ startups' = startups + 1
    /\ phase' = "connecting"
    /\ idx' = 1
    /\ sweep_probes' = [n \in ConfigNames |-> 0]
    /\ UNCHANGED << lifespan, sweep_pc, poolVars, registryVars, checkVars, routeVars >>

\* the application is served without the lifespan protocol: nothing of
\* lifespan() runs and requests reach the middleware with the module-level
\* empty registry
ServeWithoutLifespan ==
    /\ phase = "created"
    /\ lifespan = "off"
    /\ phase' = "serving"
    /\ UNCHANGED << lifespan, startups, idx, sweep_pc, sweep_probes, poolVars, registryVars, checkVars, routeVars >>

\* health_check_services from the service at position i on: the first await
\* the loop reaches.  A service that is not registered, or has neither a
\* channel nor a client, is passed over without any await.
RECURSIVE SweepEnter(_)
SweepEnter(i) ==
    IF i > NumServices THEN [idx |-> NumServices + 1, pc |-> "none"]
    ELSE LET name == ServiceConfig[i].name IN
         IF name \notin Registered THEN SweepEnter(i + 1)
         ELSE IF name \in grpc_channels THEN [idx |-> i, pc |-> "ready"]
         ELSE IF name \in http_clients THEN [idx |-> i, pc |-> "http"]
         ELSE SweepEnter(i + 1)

\* variant: an exception raised by a probe leaves the loop
sweep_continue_raises(i, failed) == IF failed THEN NumServices + 1 ELSE i + 1

\* health_check_services: the loop position after the probe of the service
\* at position i; the try block and both except branches end the iteration,
\* so the loop goes on with the next configured service
sweep_continue(i, failed) == i + 1

\* the sweep moves to the first await at or after position i
SweepTo(i) ==
    LET e == SweepEnter(i) IN
    /\ idx' = e.idx
    /\ sweep_pc' = e.pc
    /\ sweep_probes' = IF e.pc = "none" THEN sweep_probes
                       ELSE [sweep_probes EXCEPT ![ServiceConfig[e.idx].name] = @ + 1]

ConnectOutcomes == {"ok", "channel_error", "client_error"}

\* variant: every connection failure is re-raised
AbortsStartup_any(cfg, outcome) == outcome # "ok"

\* initialize_service_connections, the except branch: the exception is
\* raised again when the service is configured as required
AbortsStartup(cfg, outcome) == outcome # "ok" /\ cfg.required

\* one iteration of the loop of initialize_service_connections
InitializeService(outcome) ==
    /\ phase = "connecting"
    /\ idx <= NumServices
    /\ LET cfg == ServiceConfig[idx] IN
       /\ service_registry' = (cfg.name :> ServiceInfo(cfg)) @@ service_registry
       /\ grpc_channels' = IF outcome \in {"ok", "client_error"}
                           THEN grpc_channels \cup {cfg.name} ELSE grpc_channels
       /\ http_clients' = IF outcome = "ok"
                          THEN http_clients \cup {cfg.name} ELSE http_clients
       /\ IF AbortsStartup(cfg, outcome)
          THEN /\ phase' = "aborted"
               /\ idx' = idx
          ELSE /\ phase' = phase
               /\ idx' = idx + 1
    /\ streak' = [streak EXCEPT ![ServiceConfig[idx].name] = 0]
    /\ UNCHANGED << lifespan, startups, sweep_pc, sweep_probes, now, checkVars, routeVars >>

\* lifespan: initialize_service_connections returned, health_check_services
\* starts and runs to its first await
SweepStart ==
    /\ phase = "connecting"
    /\ idx = NumServices + 1
    /\ phase' = "sweeping"
    /\ SweepTo(1)
    /\ UNCHANGED << lifespan, startups, poolVars, registryVars, checkVars, routeVars >>

\* health_check_services: wait_for(channel_ready(), 5.0) returned or raised
SweepReady(outcome) ==
    /\ phase = "sweeping"
    /\ sweep_pc = "ready"
    /\ LET name == ServiceConfig[idx].name IN
       /\ service_registry' =
              [service_registry EXCEPT ![name] = sweep_probe_ready(@, outcome, UtcNow)]
       /\ IF ReadyFailed(outcome)
          THEN /\ Stamp(name, TRUE)
               /\ SweepTo(sweep_continue(idx, TRUE))
          ELSE /\ UNCHANGED << now, streak >>
               /\ IF name \in http_clients
                  THEN /\ idx' = idx
                       /\ sweep_pc' = "http"
                       /\ sweep_probes' = sweep_probes
                  ELSE SweepTo(sweep_continue(idx, FALSE))
    /\ UNCHANGED << lifespan, startups, phase, poolVars, checkVars, routeVars >>

\* health_check_services: client.get("/health", timeout=5.0) returned or raised
SweepHttp(outcome) ==
    /\ phase = "sweeping"
    /\ sweep_pc = "http"
    /\ LET name == ServiceConfig[idx].name IN
       /\ service_registry' =
              [service_registry EXCEPT ![name] = sweep_probe_http(@, outcome, UtcNow)]
       /\ Stamp(name, HttpFailed(outcome))
    /\ SweepTo(sweep_continue(idx, HttpFailed(outcome)))
    /\ UNCHANGED << lifespan, startups, phase, poolVars, checkVars, routeVars >>

\* variant: the application yields while the sweep is still running
SweepDone_early ==
    /\ phase = "sweeping"
    /\ phase' = "serving"
    /\ UNCHANGED << lifespan, startups, idx, sweep_pc, sweep_probes, poolVars, registryVars, checkVars, routeVars >>

\* lifespan: health_check_services returned; the application yields and the
\* server begins to accept requests
SweepDone ==
    /\ phase = "sweeping"
    /\ idx = NumServices + 1
    /\ phase' = "serving"
    /\ UNCHANGED << lifespan, startups, idx, sweep_pc, sweep_probes, poolVars, registryVars, checkVars, routeVars >>

\* the server hands a request to the application: with the lifespan
\* protocol, once the startup half of lifespan() has reached its yield
Accepting == phase = "serving"

\* ------------------------------------------------------ manual health check
\* service_name path parameters tried: a configured name and one that is
\* not configured
CheckNames == {"analytics", "unknown"}

\* the JSON the endpoint returns; status is service_info.status.value read
\* when the response is built
CheckResponse(name, status, message) ==
    [status |-> 200, body |-> <<"service", name, "status", status, "message", message>>]

\* variant: the exception reaches the general handler instead
CheckNotFound_internal_error(name) ==
    [status |-> 500, body |-> <<"detail", "Internal server error">>]

\* http_exception_handler applied to HTTPException(404, "Service <name> not found")
CheckNotFound(name) ==
    [status |-> 404, body |-> <<"detail", "Service ", name, " not found">>]

\* POST /api/v2/services/{service_name}/health-check, up to its first await
ManualCheckStart(c, name) ==
    /\ Accepting
    /\ check_pc[c] = "idle"
    /\ checks < MaxChecks
    /\ checks' = checks + 1
    /\ check_name' = [check_name EXCEPT ![c] = name]
    /\ check_seq' = [check_seq EXCEPT ![c] =
           1 + Cardinality({d \in Checkers : check_pc[d] # "idle"})]
    /\ IF name \notin Registered
       THEN /\ check_pc' = [check_pc EXCEPT ![c] = "done"]
            /\ check_resp' = [check_resp EXCEPT ![c] = CheckNotFound(name)]
       ELSE IF name \in grpc_channels
       THEN /\ check_pc' = [check_pc EXCEPT ![c] = "ready"]
            /\ check_resp' = [check_resp EXCEPT ![c] = NoResponse]
       ELSE IF name \in http_clients
       THEN /\ check_pc' = [check_pc EXCEPT ![c] = "http"]
            /\ check_resp' = [check_resp EXCEPT ![c] = NoResponse]
       ELSE /\ check_pc' = [check_pc EXCEPT ![c] = "done"]
            /\ check_resp' = [check_resp EXCEPT ![c] =
                   CheckResponse(name, service_registry[name].status, "completed")]
    /\ UNCHANGED << lifespan, startupVars, poolVars, registryVars, routeVars >>

\* manual_health_check: wait_for(channel_ready(), 5.0) returned or raised
ManualCheckReady(c, outcome) ==
    /\ check_pc[c] = "ready"
    /\ LET name == check_name[c] IN
       /\ service_registry' =
              [service_registry EXCEPT ![name] = manual_probe_ready(@, outcome, UtcNow)]
       /\ IF ReadyFailed(outcome)
          THEN /\ Stamp(name, TRUE)
               /\ check_pc' = [check_pc EXCEPT ![c] = "done"]
               /\ check_resp' = [check_resp EXCEPT ![c] =
                      CheckResponse(name, service_registry'[name].status, "failed")]
          ELSE /\ UNCHANGED << now, streak >>
               /\ IF name \in http_clients
                  THEN /\ check_pc' = [check_pc EXCEPT ![c] = "http"]
                       /\ check_resp' = check_resp
                  ELSE /\ check_pc' = [check_pc EXCEPT ![c] = "done"]
                       /\ check_resp' = [check_resp EXCEPT ![c] =
                              CheckResponse(name, service_registry[name].status, "completed")]
    /\ UNCHANGED << lifespan, startupVars, poolVars, checks, check_name, check_seq,
                    routeVars >>

\* manual_health_check: client.get("/health", timeout=5.0) returned or raised
ManualCheckHttp(c, outcome) ==
    /\ check_pc[c] = "http"
    /\ LET name == check_name[c] IN
       /\ service_registry' =
              [service_registry EXCEPT ![name] = manual_probe_http(@, outcome, UtcNow)]
       /\ Stamp(name, HttpFailed(outcome))
       /\ check_resp' = [check_resp EXCEPT ![c] =
              CheckResponse(name, service_registry'[name].status,
                            IF HttpFailed(outcome) THEN "failed" ELSE "completed")]
    /\ check_pc' = [check_pc EXCEPT ![c] = "done"]
    /\ UNCHANGED << lifespan, startupVars, poolVars, checks, check_name, check_seq,
                    routeVars >>

\* the response of a manual check is sent
ManualCheckReturn(c) ==
    /\ check_pc[c] = "done"
    /\ check_pc' = [check_pc EXCEPT ![c] = "idle"]
    /\ check_name' = [check_name EXCEPT ![c] = ""]
    /\ check_seq' = [d \in Checkers |->
           IF d = c THEN 0
           ELSE IF check_seq[d] > check_seq[c] THEN check_seq[d] - 1
           ELSE check_seq[d]]
    /\ check_resp' = [check_resp EXCEPT ![c] = NoResponse]
    /\ UNCHANGED << lifespan, startupVars, poolVars, registryVars, checks, routeVars >>

\* GET /api/v2/services/registry: the handler has no await; it reads the
\* registry and the pools into its response and writes nothing
GetServiceRegistry ==
    /\ Accepting
    /\ UNCHANGED vars

\* ------------------------------------------------------------------ routing
\* variant: the ai rule has no /api/v2/ai/ prefix and the identity rule
\* also takes /api/v2/auth/
RoutedService_other_versions(path) ==
    IF StartsWith(path, Prefix("api", "v1", "ai"))
    THEN "ai-kernel"
    ELSE IF StartsWith(path, Prefix("api", "v1", "auth")) \/ StartsWith(path, Prefix("api", "v1", "users"))
              \/ StartsWith(path, Prefix("api", "v2", "auth"))
    THEN "identity"
    ELSE IF StartsWith(path, Prefix("api", "v1", "cv")) \/ StartsWith(path, Prefix("api", "v2", "cv"))
    THEN "cv-engine"
    ELSE IF StartsWith(path, Prefix("api", "v1", "analytics")) \/ StartsWith(path, Prefix("api", "v2", "analytics"))
    THEN "analytics"
    ELSE ""

\* service_routing_middleware: the service a path is routed to, "" when the
\* request goes to call_next
RoutedService(path) ==
    IF StartsWith(path, Prefix("api", "v1", "ai")) \/ StartsWith(path, Prefix("api", "v2", "ai"))
    THEN "ai-kernel"
    ELSE IF StartsWith(path, Prefix("api", "v1", "auth")) \/ StartsWith(path, Prefix("api", "v1", "users"))
    THEN "identity"
    ELSE IF StartsWith(path, Prefix("api", "v1", "cv")) \/ StartsWith(path, Prefix("api", "v2", "cv"))
    THEN "cv-engine"
    ELSE IF StartsWith(path, Prefix("api", "v1", "analytics")) \/ StartsWith(path, Prefix("api", "v2", "analytics"))
    THEN "analytics"
    ELSE ""

\* the request was handed to call_next: the local application answers
LocalResponse == [status |-> 200, body |-> <<"local">>]

\* variant: the unknown service is answered like an unavailable one
NotFound_as_unavailable(name) ==
    [status |-> 503, body |-> <<"detail", "Service ", name, " is not available">>]

NotFound(name) == [status |-> 404, body |-> <<"detail", "Service ", name, " not found">>]
NotAvailable(name) == [status |-> 503, body |-> <<"detail", "Service ", name, " is not available">>]

\* the except branch of route_to_service
RoutingError(name) == [status |-> 500, body |-> <<"detail", "Error communicating with ", name>>]

\* the except Exception branch of the route_to_<service> handlers; the
\* generic handler formats "<service_name> service error"
ServiceError(name) ==
    [status |-> 500,
     body |-> CASE name = "ai-kernel" -> <<"detail", "AI Kernel service error">>
                [] name = "identity" -> <<"detail", "Identity service error">>
                [] name = "cv-engine" -> <<"detail", "CV Engine service error">>
                [] name = "analytics" -> <<"detail", "Analytics service error">>
                [] OTHER -> <<"detail", name, " service error">>]

\* the except httpx.TimeoutException branch of route_to_ai_kernel
AIKernelTimeout == [status |-> 504, body |-> <<"detail", "AI Kernel service timeout">>]

\* global_exception_handler: the response when an exception leaves the
\* middleware
UnhandledError == [status |-> 500, body |-> <<"detail", "Internal server error">>]

\* sub in s, for token sequences
HasSub(s, sub) == \E i \in 1..(Len(s) - Len(sub) + 1) : SubSeq(s, i, i + Len(sub) - 1) = sub

\* the call a route_to_<service> handler issues on the service's client
ForwardedCall(name, req) ==
    LET path == req.path IN
    CASE name = "ai-kernel" ->
           [service |-> name, method |-> "POST", content |-> req.body,
            url |-> Prefix("api", "v2", "ai")
                    \o Remove(Remove(path, Prefix("api", "v1", "ai")), Prefix("api", "v2", "ai"))]
      [] name = "identity" ->
           LET rest == Remove(Remove(path, Prefix("api", "v1", "auth")), Prefix("api", "v1", "users")) IN
           IF StartsWith(path, Prefix("api", "v1", "auth"))
           THEN IF req.method = "POST" /\ Contains(path, "login")
                THEN [service |-> name, method |-> "POST", content |-> req.body,
                      url |-> Prefix("api", "v1", "auth") \o <<"login">>]
                ELSE IF req.method = "POST" /\ Contains(path, "register")
                THEN [service |-> name, method |-> "POST", content |-> req.body,
                      url |-> Prefix("api", "v1", "auth") \o <<"register">>]
                ELSE [service |-> name, method |-> req.method, content |-> req.body,
                      url |-> Prefix("api", "v1", "auth") \o rest]
           ELSE [service |-> name, method |-> req.method, content |-> req.body,
                 url |-> Prefix("api", "v1", "users") \o rest]
      [] name = "cv-engine" ->
           [service |-> name, method |-> req.method, content |-> req.body,
            url |-> Prefix("api", "v1", "cv")
                    \o Remove(Remove(path, Prefix("api", "v1", "cv")), Prefix("api", "v2", "cv"))]
      [] name = "analytics" ->
           [service |-> name, method |-> req.method, content |-> req.body,
            url |-> Prefix("api", "v1", "analytics")
                    \o Remove(Remove(path, Prefix("api", "v1", "analytics")),
                              Prefix("api", "v2", "analytics"))]
      [] OTHER ->
           \* route_to_generic_service
           LET rest == IF HasSub(path, <<"/", "api", "/", "v1", "/", name>>)
                       THEN Remove(path, Prefix("api", "v1", name))
                       ELSE IF HasSub(path, <<"/", "api", "/", "v2", "/", name>>)
                       THEN Remove(path, Prefix("api", "v2", name))
                       ELSE path
           IN [service |-> name, method |-> req.method, content |-> req.body,
               url |-> <<"/", "api", "/", "v1", "/">> \o rest]

\* what the backend does with a forwarded call
BackendStatuses == {200, 502}
Replies ==
    [kind : {"response"}, status : BackendStatuses, content : {"empty", "json", "invalid"}]
      \cup [kind : {"timeout", "error"}, status : {0}, content : {""}]

\* JSONResponse(status_code=response.status_code,
\*              content=response.json() if response.content else {})
Relay(reply) ==
    [status |-> reply.status,
     body |-> IF reply.content = "empty" THEN <<"{}">> ELSE <<"json">>]

\* variant: the timeout branch is missing, as in the other handlers
ForwardResult_no_timeout_branch(name, reply) ==
    IF reply.kind = "response" /\ reply.content # "invalid"
    THEN Relay(reply)
    ELSE ServiceError(name)

\* variant: the handlers do not catch, errors reach route_to_service's except
ForwardResult_propagates(name, reply) ==
    IF reply.kind = "response" /\ reply.content # "invalid"
    THEN Relay(reply)
    ELSE IF reply.kind = "timeout" /\ name = "ai-kernel"
    THEN AIKernelTimeout
    ELSE RoutingError(name)

\* variant: response.json() is called outside every try
ForwardResult_unguarded_json(name, reply) ==
    IF reply.kind = "response"
    THEN IF reply.content = "invalid" THEN UnhandledError ELSE Relay(reply)
    ELSE IF reply.kind = "timeout" /\ name = "ai-kernel"
    THEN AIKernelTimeout
    ELSE ServiceError(name)

\* a route_to_<service> handler after its client call returned or raised
ForwardResult(name, reply) ==
    IF reply.kind = "response"
    THEN IF reply.content = "invalid"
         THEN ServiceError(name)                     \* response.json() raises
         ELSE Relay(reply)
    ELSE IF reply.kind = "timeout" /\ name = "ai-kernel"
    THEN AIKernelTimeout
    ELSE ServiceError(name)

\* variant: the gate refuses only services marked unhealthy
\* variant: a service with a few failed probes still passes the gate
NotHealthy_tolerates_disconnected(info) == info.status \in {STARTING, UNHEALTHY}

NotHealthy_only_unhealthy(info) == info.status = UNHEALTHY

\* route_to_service: the health gate, service_info.status != HEALTHY
NotHealthy(info) == info.status # HEALTHY

\* service_routing_middleware and route_to_service up to await request.body()
RouteStart(r, req) ==
    /\ Accepting
    /\ route_pc[r] = "idle"
    /\ route_req' = [route_req EXCEPT ![r] = req]
    /\ route_calls' = [route_calls EXCEPT ![r] = <<>>]
    /\ route_reply' = [route_reply EXCEPT ![r] = NoReply]
    /\ LET name == RoutedService(req.path) IN
       /\ route_svc' = [route_svc EXCEPT ![r] = name]
       /\ IF name = ""
          THEN /\ route_pc' = [route_pc EXCEPT ![r] = "done"]
               /\ route_resp' = [route_resp EXCEPT ![r] = LocalResponse]
          ELSE IF name \notin Registered
          THEN /\ route_pc' = [route_pc EXCEPT ![r] = "done"]
               /\ route_resp' = [route_resp EXCEPT ![r] = NotFound(name)]
          ELSE IF NotHealthy(service_registry[name])
          THEN /\ route_pc' = [route_pc EXCEPT ![r] = "done"]
               /\ route_resp' = [route_resp EXCEPT ![r] = NotAvailable(name)]
          ELSE /\ route_pc' = [route_pc EXCEPT ![r] = "body"]
               /\ route_resp' = [route_resp EXCEPT ![r] = NoResponse]
    /\ UNCHANGED << lifespan, startupVars, poolVars, registryVars, checkVars >>

\* route_to_service: request.body() returned or raised; on return the
\* route_to_<service> handler runs up to its client call
RouteBody(r, outcome) ==
    /\ route_pc[r] = "body"
    /\ LET name == route_svc[r] IN
       IF outcome = "error"
       THEN /\ route_pc' = [route_pc EXCEPT ![r] = "done"]
            /\ route_resp' = [route_resp EXCEPT ![r] = RoutingError(name)]
            /\ route_calls' = route_calls
       ELSE IF name \notin http_clients
       THEN \* http_clients[name] raises KeyError inside the handler's try
            /\ route_pc' = [route_pc EXCEPT ![r] = "done"]
            /\ route_resp' = [route_resp EXCEPT ![r] = ServiceError(name)]
            /\ route_calls' = route_calls
       ELSE /\ route_pc' = [route_pc EXCEPT ![r] = "call"]
            /\ route_resp' = route_resp
            /\ route_calls' = [route_calls EXCEPT ![r] =
                   Append(@, ForwardedCall(name, route_req[r]))]
    /\ UNCHANGED << lifespan, startupVars, poolVars, registryVars, checkVars,
                    route_req, route_svc, route_reply >>

\* variant: a forwarding failure is recorded against the service like a
\* failed probe
RouteCall_counts_failures(r, reply) ==
    /\ route_pc[r] = "call"
    /\ route_pc' = [route_pc EXCEPT ![r] = "done"]
    /\ route_resp' = [route_resp EXCEPT ![r] = ForwardResult(route_svc[r], reply)]
    /\ route_reply' = [route_reply EXCEPT ![r] = reply]
    /\ IF reply.kind = "response"
       THEN UNCHANGED registryVars
       ELSE /\ service_registry' = [service_registry EXCEPT ![route_svc[r]] =
                   handle_service_health_failure(@, UtcNow, max_failures)]
            /\ now' = now + 1
            /\ streak' = streak
    /\ UNCHANGED << lifespan, startupVars, poolVars, checkVars,
                    route_req, route_svc, route_calls >>

\* variant: a call that timed out or failed is issued once more
RouteCall_retries(r, reply) ==
    /\ route_pc[r] = "call"
    /\ IF reply.kind # "response" /\ Len(route_calls[r]) < 2
       THEN /\ route_pc' = route_pc
            /\ route_resp' = route_resp
            /\ route_calls' = [route_calls EXCEPT ![r] = Append(@, @[1])]
       ELSE /\ route_pc' = [route_pc EXCEPT ![r] = "done"]
            /\ route_resp' = [route_resp EXCEPT ![r] = ForwardResult(route_svc[r], reply)]
            /\ route_calls' = route_calls
    /\ route_reply' = [route_reply EXCEPT ![r] = reply]
    /\ UNCHANGED << lifespan, startupVars, poolVars, registryVars, checkVars,
                    route_req, route_svc >>

\* a route_to_<service> handler: the client call returned or raised
RouteCall(r, reply) ==
    /\ route_pc[r] = "call"
    /\ route_pc' = [route_pc EXCEPT ![r] = "done"]
    /\ route_resp' = [route_resp EXCEPT ![r] = ForwardResult(route_svc[r], reply)]
    /\ route_reply' = [route_reply EXCEPT ![r] = reply]
    /\ UNCHANGED << lifespan, startupVars, poolVars, registryVars, checkVars,
                    route_req, route_svc, route_calls >>

\* the response of a routed request is sent
RouteReturn(r) ==
    /\ route_pc[r] = "done"
    /\ route_pc' = [route_pc EXCEPT ![r] = "idle"]
    /\ route_req' = [route_req EXCEPT ![r] = NoRequest]
    /\ route_svc' = [route_svc EXCEPT ![r] = ""]
    /\ route_resp' = [route_resp EXCEPT ![r] = NoResponse]
    /\ route_calls' = [route_calls EXCEPT ![r] = <<>>]
    /\ route_reply' = [route_reply EXCEPT ![r] = NoReply]
    /\ UNCHANGED << lifespan, startupVars, poolVars, registryVars, checkVars >>

\* ------------------------------------------------------------ specification
\* lifespan(), the startup half
StartupNext ==
    \/ LifespanStartup
    \/ \E outcome \in ConnectOutcomes : InitializeService(outcome)
    \/ SweepStart
    \/ \E outcome \in ReadyOutcomes : SweepReady(outcome)
    \/ \E outcome \in HttpOutcomes : SweepHttp(outcome)
    \/ SweepDone

\* the request handlers
ServingNext ==
    \/ \E c \in Checkers, name \in CheckNames : ManualCheckStart(c, name)
    \/ \E c \in Checkers, outcome \in ReadyOutcomes : ManualCheckReady(c, outcome)
    \/ \E c \in Checkers, outcome \in HttpOutcomes : ManualCheckHttp(c, outcome)
    \/ \E c \in Checkers : ManualCheckReturn(c)
    \/ GetServiceRegistry
    \/ \E r \in Routers, req \in Requests : RouteStart(r, req)
    \/ \E r \in Routers, outcome \in {"ok", "error"} : RouteBody(r, outcome)
    \/ \E r \in Routers, reply \in Replies : RouteCall(r, reply)
    \/ \E r \in Routers : RouteReturn(r)

Next ==
    \/ StartupNext
    \/ ServeWithoutLifespan
    \/ ServingNext

Spec == Init /\ [][Next]_vars

\* The gateway as its entry point starts it, uvicorn.run("main:app", ...):
\* the server runs the lifespan protocol and hands requests over after the
\* startup half of lifespan() has completed.
LifespanNext ==
    \/ StartupNext
    \/ ServingNext

LifespanInit == Init /\ lifespan = "on"

LifespanSpec == LifespanInit /\ [][LifespanNext]_vars

\* The startup half of lifespan() on its own: no request is handed over
\* before it has completed.  Each await of the sweep carries a timeout of
\* 5 seconds (wait_for(..., timeout=5.0), get(..., timeout=5.0)), so it
\* returns or raises, and the loop and lifespan() then run on.
StartupSpec ==
    /\ LifespanInit
    /\ [][StartupNext]_vars
    /\ WF_vars(\E outcome \in ReadyOutcomes : SweepReady(outcome))
    /\ WF_vars(\E outcome \in HttpOutcomes : SweepHttp(outcome))
    /\ WF_vars(SweepDone)

\* lifespan, the shutdown half: the server has drained its requests; the
\* channels and clients are closed, and the three module-level dicts keep
\* their entries
LifespanShutdown ==
    /\ phase = "serving"
    /\ lifespan = "on"
    /\ \A c \in Checkers : check_pc[c] = "idle"
    /\ \A r \in Routers : route_pc[r] = "idle"
    /\ phase' = "stopped"
    /\ UNCHANGED << lifespan, idx, sweep_pc, sweep_probes, startups, poolVars,
                    registryVars, checkVars, routeVars >>

\* Every forwarded call carries the client's timeout (30 s, 10 s to connect),
\* so a call that was issued returns or raises; the server hands the request
\* body over or raises when the client has gone.
FairSpec ==
    /\ Spec
    /\ \A r \in Routers :
         /\ WF_vars(\E outcome \in {"ok", "error"} : RouteBody(r, outcome))
         /\ WF_vars(\E reply \in Replies : RouteCall(r, reply))

\* ------------------------------------------------------------------ steps
\* the step is taken by the sweep while it probes n
SweepProbes(n) ==
    /\ phase = "sweeping"
    /\ idx <= NumServices
    /\ ServiceConfig[idx].name = n
    /\ << idx, sweep_pc >>' # << idx, sweep_pc >>

\* the step is taken by manual check c while it probes n
CheckProbes(c, n) ==
    /\ check_name[c] = n
    /\ check_pc[c] \in {"ready", "http"}
    /\ check_pc'[c] # check_pc[c]

\* the step completes a probe of n that got HTTP 200
SuccessRecorded(n) ==
    /\ SweepProbes(n) \/ \E c \in Checkers : CheckProbes(c, n)
    /\ now' # now
    /\ streak'[n] = 0

\* the step completes a probe of n that failed
FailureRecorded(n) ==
    /\ SweepProbes(n) \/ \E c \in Checkers : CheckProbes(c, n)
    /\ now' # now
    /\ streak'[n] = streak[n] + 1

CheckFailed(c, name) ==
    /\ check_pc[c] = "done"
    /\ check_name[c] = name
    /\ check_resp[c].status = 200
    /\ check_resp[c].body[6] = "failed"

CheckCompleted(c, name) ==
    /\ check_pc[c] = "done"
    /\ check_name[c] = name
    /\ check_resp[c].status = 200
    /\ check_resp[c].body[6] = "completed"

\* ----------------------------------------------------------------- claims
\* C1: in every reachable state every registry record has
\* health_check_failures = 0 if its status is healthy, health_check_failures
\* >= 3 if its status is unhealthy, and health_check_failures >= 0.
C1_StatusCounterInvariant ==
    \A n \in Registered :
        LET info == service_registry[n] IN
        /\ info.status = "healthy" => info.health_check_failures = 0
        /\ info.status = "unhealthy" => info.health_check_failures >= 3
        /\ info.health_check_failures >= 0

\* C1 witness: one service unhealthy, another healthy, a manual check in flight
C1_Witness ==
    /\ \E n \in Registered : service_registry[n].status = "unhealthy"
    /\ \E n \in Registered : service_registry[n].status = "healthy"
    /\ \E c \in Checkers : check_pc[c] \in {"ready", "http"}
    /\ \E r \in Routers : route_pc[r] \in {"body", "call"}

\* C3: k failed probes of a service in a row, counted from its registration
\* or its last successful probe, leave it disconnected when 1 <= k < 3 and
\* unhealthy when k >= 3, and every failed probe sets last_health_check to
\* the time of the probe.
C3_FailureThreshold ==
    /\ [](\A n \in Registered :
            streak[n] >= 1 =>
                service_registry[n].status =
                    IF streak[n] < 3 THEN "disconnected" ELSE "unhealthy")
    /\ [][\A n \in ConfigNames :
            FailureRecorded(n) =>
                /\ service_registry'[n].last_health_check = now'
                /\ service_registry'[n].last_health_check # service_registry[n].last_health_check]_vars

\* C3 witness: the third failure in a row has been recorded
C3_Witness ==
    \E n \in Registered :
        /\ streak[n] = 3
        /\ service_registry[n].status = "unhealthy"
        /\ service_registry[n].last_health_check = now

\* C4: a probe that gets HTTP 200 leaves the service healthy, with
\* health_check_failures 0 and last_health_check set, whatever its status
\* and counter were before.
C4_SuccessResets ==
    [][\A n \in ConfigNames :
        SuccessRecorded(n) =>
            /\ service_registry'[n].status = "healthy"
            /\ service_registry'[n].health_check_failures = 0
            /\ service_registry'[n].last_health_check = now'
            /\ service_registry'[n].last_health_check # 0]_vars

\* C4 witness: one overlapping manual check answered "unhealthy" on its
\* third failure, the other then got 200 and the service is healthy
C4_Witness ==
    \E c1, c2 \in Checkers, n \in Registered :
        /\ CheckFailed(c1, n)
        /\ check_resp[c1].body[4] = "unhealthy"
        /\ CheckCompleted(c2, n)
        /\ check_resp[c2].body[4] = "healthy"
        /\ service_registry[n].status = "healthy"
        /\ service_registry[n].health_check_failures = 0

\* C5: the failure counter of a service equals the number of failed probes
\* recorded since its last recorded success (or its registration), and every
\* change of a record is one whole recording: a success (healthy, counter 0,
\* timestamp) or a failure (counter + 1, status by the threshold, timestamp).
C5_NoLostUpdate ==
    /\ [](\A n \in Registered : service_registry[n].health_check_failures = streak[n])
    /\ [][\A n \in Registered :
            service_registry'[n] # service_registry[n] =>
                LET a == service_registry[n]
                    b == service_registry'[n] IN
                /\ b.last_health_check = now'
                /\ now' = now + 1
                /\ \/ b.status = "healthy" /\ b.health_check_failures = 0
                   \/ /\ b.health_check_failures = a.health_check_failures + 1
                      /\ b.status = IF b.health_check_failures >= 3
                                    THEN "unhealthy" ELSE "disconnected"]_vars

\* C5 witness: two overlapping manual checks of one service both failed and
\* both failures are counted
C5_Witness ==
    \E c1, c2 \in Checkers, n \in Registered :
        /\ c1 # c2
        /\ CheckFailed(c1, n)
        /\ CheckFailed(c2, n)
        /\ check_resp[c1].body[4] = "disconnected"
        /\ check_resp[c2].body[4] = "unhealthy"
        /\ service_registry[n].health_check_failures = 4
        /\ streak[n] = 4

\* the step is route_to_service entered by request r for a routed service
RouteEnters(r, name) ==
    /\ route_pc[r] = "idle"
    /\ route_pc'[r] # "idle"
    /\ route_svc'[r] = name
    /\ name # ""

\* request r has its response and was routed to a service
Routed(r) == route_pc[r] = "done" /\ route_svc[r] # ""

\* C2: when route_to_service finds the matched service registered with a
\* status other than healthy, the request is answered at once with 503
\* {"detail": "Service <name> is not available"} and no outbound call.
C2_UnhealthyGets503 ==
    [][\A r \in Routers, n \in Registered :
        (RouteEnters(r, n) /\ service_registry[n].status # "healthy") =>
            /\ route_pc'[r] = "done"
            /\ route_resp'[r] = [status |-> 503,
                                 body |-> <<"detail", "Service ", n, " is not available">>]
            /\ route_calls'[r] = <<>>]_vars

\* C2 witness: a request for an unhealthy service was answered 503 without
\* any outbound call
C2_Witness ==
    \E r \in Routers :
        /\ Routed(r)
        /\ route_svc[r] \in Registered
        /\ service_registry[route_svc[r]].status = "unhealthy"
        /\ route_resp[r].status = 503
        /\ route_calls[r] = <<>>

\* C6: a request routed to a service name that is not in the registry is
\* answered at once with 404 {"detail": "Service <name> not found"}, with no
\* outbound call and the registry unchanged.
C6_UnregisteredGets404 ==
    [][\A r \in Routers, n \in ConfigNames :
        (RouteEnters(r, n) /\ n \notin Registered) =>
            /\ route_pc'[r] = "done"
            /\ route_resp'[r] = [status |-> 404,
                                 body |-> <<"detail", "Service ", n, " not found">>]
            /\ route_calls'[r] = <<>>
            /\ service_registry' = service_registry]_vars

\* C6 witness: a routed request found its service missing from the registry
C6_Witness ==
    \E r \in Routers :
        /\ Routed(r)
        /\ route_svc[r] \notin Registered
        /\ route_resp[r].status = 404
        /\ route_calls[r] = <<>>

\* the timeout body the claim names for each routed service
TimeoutDetail(name) ==
    CASE name = "ai-kernel" -> "AI Kernel service timeout"
      [] name = "identity" -> "Identity service timeout"
      [] name = "cv-engine" -> "CV Engine service timeout"
      [] name = "analytics" -> "Analytics service timeout"

\* C7 (as claimed): for every routed service a forwarded call that times out
\* is answered 504 with a "<Service> service timeout" detail.
C7_TimeoutGets504 ==
    \A r \in Routers :
        (Routed(r) /\ route_reply[r].kind = "timeout") =>
            route_resp[r] = [status |-> 504,
                             body |-> <<"detail", TimeoutDetail(route_svc[r])>>]

\* C8: a forwarded call to ai-kernel that times out is answered 504
\* {"detail": "AI Kernel service timeout"} and the step leaves the registry
\* as it was.
C8_AIKernelTimeout ==
    /\ [](\A r \in Routers :
            (Routed(r) /\ route_svc[r] = "ai-kernel" /\ route_reply[r].kind = "timeout") =>
                route_resp[r] = [status |-> 504,
                                 body |-> <<"detail", "AI Kernel service timeout">>])
    /\ [][\A r \in Routers :
            (/\ route_pc[r] = "call"
             /\ route_svc[r] = "ai-kernel"
             /\ route_reply'[r].kind = "timeout") =>
                service_registry' = service_registry]_vars

\* C8 witness: the forwarded call to ai-kernel timed out
C8_Witness ==
    \E r \in Routers :
        /\ Routed(r)
        /\ route_svc[r] = "ai-kernel"
        /\ route_reply[r].kind = "timeout"
        /\ Len(route_calls[r]) = 1
        /\ route_resp[r].status = 504

\* C9 (as claimed): a forwarded call that fails with a transport error other
\* than a timeout is answered 500 {"detail": "Error communicating with <service>"}.
C9_ErrorGetsCommunicatingBody ==
    \A r \in Routers :
        (Routed(r) /\ route_reply[r].kind = "error") =>
            route_resp[r] = [status |-> 500,
                             body |-> <<"detail", "Error communicating with ", route_svc[r]>>]

\* C9 (amended): a forwarded call that fails with a transport error other
\* than a timeout is answered 500 with the handler's own detail: "AI Kernel
\* service error", "Identity service error", "CV Engine service error" or
\* "Analytics service error".
C9_ErrorGetsServiceErrorBody ==
    \A r \in Routers :
        (Routed(r) /\ route_reply[r].kind = "error") =>
            /\ route_resp[r].status = 500
            /\ route_resp[r].body =
                 CASE route_svc[r] = "ai-kernel" -> <<"detail", "AI Kernel service error">>
                   [] route_svc[r] = "identity" -> <<"detail", "Identity service error">>
                   [] route_svc[r] = "cv-engine" -> <<"detail", "CV Engine service error">>
                   [] route_svc[r] = "analytics" -> <<"detail", "Analytics service error">>

\* C9 witness: a forwarded call failed with a transport error
C9_Witness ==
    \E r \in Routers :
        /\ Routed(r)
        /\ route_reply[r].kind = "error"
        /\ Len(route_calls[r]) = 1
        /\ route_resp[r].status = 500

\* C10: a routed request that has its response has a JSON response whose
\* status is the backend's status or one of 404, 503, 500, 504, and it is
\* not the response of the global exception handler; once the forwarded
\* call is issued the response follows.
C10_AlwaysJsonResponse ==
    /\ [](\A r \in Routers :
            Routed(r) =>
                /\ \/ /\ route_reply[r].kind = "response"
                      /\ route_resp[r].status = route_reply[r].status
                   \/ route_resp[r].status \in {404, 503, 500, 504}
                /\ \/ route_resp[r].body \in {<<"json">>, <<"{}">>}
                   \/ /\ Len(route_resp[r].body) >= 2
                      /\ route_resp[r].body[1] = "detail"
                /\ route_resp[r].body # <<"detail", "Internal server error">>)
    /\ \A r \in Routers : (route_pc[r] \in {"body", "call"}) ~> (route_pc[r] = "done")

\* C10 witness: the backend answered with a body that is not JSON and the
\* request still got a JSON error response
C10_Witness ==
    \E r \in Routers :
        /\ Routed(r)
        /\ route_reply[r].kind = "response"
        /\ route_reply[r].content = "invalid"
        /\ route_resp[r].status = 500

\* ------------------------------------------------- forwarding, path by path
\* The path rewriting of the middleware and of the route_to_<service>
\* handlers are functions of the request alone.  ForwardSpec sends requests
\* over a wider set of methods, bodies and paths to the gateway in two states
\* the program reaches: after a startup in which every probe succeeded, and
\* served without the lifespan protocol (empty registry).
Methods == {"GET", "POST", "DELETE"}
Bodies == {"", "b1"}

\* what follows the routing prefix of segment c: an empty rest, one and two
\* segments, the login and register endpoints, and rests that contain a
\* routing prefix of the same service again
Rests(c) ==
    { <<>>, <<"x">>, <<"x", "/", "y">>, <<"login">>, <<"register">>,
      <<"x">> \o Prefix("api", "v1", c) \o <<"y">>,
      <<"x">> \o Prefix("api", "v2", c) \o <<"y">> }

Segments == {"ai", "auth", "users", "cv", "analytics"}

\* paths under a prefix of the form /api/<v>/<segment>/
PrefixedPaths ==
    { P("api", v, c, rest) : v \in {"v1", "v2"}, c \in Segments, rest \in UNION {Rests(d) : d \in Segments} }

\* paths of the gateway's own endpoints and near misses of the prefixes
OtherPaths ==
    { <<"/", "health">>,
      <<"/", "api", "/", "v2", "/", "services", "/", "registry">>,
      <<"/", "api", "/", "v2", "/", "services", "/", "cv-engine", "/", "health-check">>,
      <<"/", "api", "/", "v1", "/", "ai">>,
      <<"/", "api", "/", "v3", "/", "cv", "/", "x">>,
      <<"/", "x">> \o Prefix("api", "v1", "cv") \o <<"y">> }

WideRequests ==
    { Request(m, p, b) : m \in Methods, p \in PrefixedPaths \cup OtherPaths, b \in Bodies }

\* the registry after a startup in which every connection was made and every
\* probe of the sweep got HTTP 200: the i-th service was stamped by the i-th
\* reading of the clock
AllHealthy ==
    [n \in ConfigNames |->
       LET i == CHOOSE j \in 1..NumServices : ServiceConfig[j].name = n IN
       record_success(ServiceInfo(ServiceConfig[i]), i)]

ForwardInit ==
    /\ lifespan \in {"on", "off"}
    /\ phase = "serving"
    /\ sweep_pc = "none"
    /\ IF lifespan = "on"
       THEN /\ idx = NumServices + 1
            /\ service_registry = AllHealthy
            /\ grpc_channels = ConfigNames
            /\ http_clients = ConfigNames
            /\ now = NumServices
            /\ sweep_probes = [n \in ConfigNames |-> 1]
            /\ startups = 1
       ELSE /\ idx = 0
            /\ service_registry = << >>
            /\ grpc_channels = {}
            /\ http_clients = {}
            /\ now = 0
            /\ sweep_probes = [n \in ConfigNames |-> 0]
            /\ startups = 0
    /\ checks = 0
    /\ check_pc = [c \in Checkers |-> "idle"]
    /\ check_name = [c \in Checkers |-> ""]
    /\ check_seq = [c \in Checkers |-> 0]
    /\ check_resp = [c \in Checkers |-> NoResponse]
    /\ route_pc = [r \in Routers |-> "idle"]
    /\ route_req = [r \in Routers |-> NoRequest]
    /\ route_svc = [r \in Routers |-> ""]
    /\ route_resp = [r \in Routers |-> NoResponse]
    /\ route_calls = [r \in Routers |-> <<>>]
    /\ route_reply = [r \in Routers |-> NoReply]
    /\ streak = [n \in ConfigNames |-> 0]

ForwardNext ==
    \/ \E r \in Routers, req \in WideRequests : RouteStart(r, req)
    \/ \E r \in Routers, outcome \in {"ok", "error"} : RouteBody(r, outcome)
    \/ \E r \in Routers, reply \in Replies : RouteCall(r, reply)
    \/ \E r \in Routers : RouteReturn(r)

ForwardSpec == ForwardInit /\ [][ForwardNext]_vars

\* The application started a second time in the same process (an ASGI
\* server or a test client that runs the lifespan of the same app object
\* again): startup, shutdown, and then the startup half once more.
RestartInit == LifespanInit

RestartNext ==
    \/ StartupNext
    \/ LifespanShutdown

RestartSpec == RestartInit /\ [][RestartNext]_vars

\* the start state of ForwardSpec with the lifespan protocol is a state of Spec
ForwardInitReached ==
    /\ lifespan = "on" /\ phase = "serving" /\ service_registry = AllHealthy
    /\ grpc_channels = ConfigNames /\ http_clients = ConfigNames
    /\ now = NumServices /\ idx = NumServices + 1 /\ sweep_pc = "none"
    /\ sweep_probes = [n \in ConfigNames |-> 1] /\ checks = 0 /\ startups = 1
    /\ \A r \in Routers : route_pc[r] = "idle"

\* what follows the 7-token routing prefix of a routed path
RestOf(path) == SubSeq(path, 8, Len(path))

\* the outbound calls of routed request r are exactly the one call c
IssuedExactly(r, c) == route_calls[r] = << c >>

\* the response relays the backend's status and JSON body
Relayed(r) ==
    route_resp[r] =
        [status |-> route_reply[r].status,
         body |-> IF route_reply[r].content = "empty" THEN <<"{}">> ELSE <<"json">>]

\* C11: a request with any method and body whose path is /api/v1/cv/<rest>
\* (resp. /api/v1/analytics/<rest>), accepted while the service is healthy,
\* causes exactly one outbound call on that service's client, with the same
\* method, the path /api/v1/cv/<rest> (resp. /api/v1/analytics/<rest>)
\* unchanged and the same body, and the backend's status and JSON body
\* ({} when the backend sent no body) are returned.
C11_ForwardedVerbatim ==
    \A r \in Routers :
      \A c \in {"cv", "analytics"} :
        LET name == IF c = "cv" THEN "cv-engine" ELSE "analytics"
            req == route_req[r]
        IN  (/\ route_svc[r] = name
             /\ StartsWith(req.path, Prefix("api", "v1", c))
             /\ route_pc[r] \in {"call", "done"}
             /\ route_calls[r] # <<>>)
            => /\ IssuedExactly(r, [service |-> name, method |-> req.method,
                                    content |-> req.body, url |-> req.path])
               /\ (route_pc[r] = "done" /\ route_reply[r].kind = "response"
                   /\ route_reply[r].content # "invalid") => Relayed(r)

\* C11 for the paths whose <rest> does not contain a cv (resp. analytics)
\* routing prefix again
C11_ForwardedVerbatimPlainRest ==
    \A r \in Routers :
      \A c \in {"cv", "analytics"} :
        LET name == IF c = "cv" THEN "cv-engine" ELSE "analytics"
            req == route_req[r]
        IN  (/\ route_svc[r] = name
             /\ StartsWith(req.path, Prefix("api", "v1", c))
             /\ ~HasSub(RestOf(req.path), Prefix("api", "v1", c))
             /\ ~HasSub(RestOf(req.path), Prefix("api", "v2", c))
             /\ route_pc[r] \in {"call", "done"}
             /\ route_calls[r] # <<>>)
            => /\ IssuedExactly(r, [service |-> name, method |-> req.method,
                                    content |-> req.body, url |-> req.path])
               /\ (route_pc[r] = "done" /\ route_reply[r].kind = "response"
                   /\ route_reply[r].content # "invalid") => Relayed(r)

\* C12: every request routed to ai-kernel while it is healthy, whatever its
\* method and whether its path starts with /api/v1/ai/ or /api/v2/ai/, is
\* issued to the backend exactly once as POST /api/v2/ai/<rest> with the
\* original body, <rest> being what follows the prefix.
C12_ReissuedAsPost ==
    \A r \in Routers :
      LET req == route_req[r] IN
      (route_svc[r] = "ai-kernel" /\ route_calls[r] # <<>>)
        => IssuedExactly(r, [service |-> "ai-kernel", method |-> "POST",
                             content |-> req.body,
                             url |-> Prefix("api", "v2", "ai") \o RestOf(req.path)])

\* C12 for the paths whose <rest> does not contain an ai routing prefix again
C12_ReissuedAsPostPlainRest ==
    \A r \in Routers :
      LET req == route_req[r] IN
      (/\ route_svc[r] = "ai-kernel"
       /\ route_calls[r] # <<>>
       /\ ~HasSub(RestOf(req.path), Prefix("api", "v1", "ai"))
       /\ ~HasSub(RestOf(req.path), Prefix("api", "v2", "ai")))
        => IssuedExactly(r, [service |-> "ai-kernel", method |-> "POST",
                             content |-> req.body,
                             url |-> Prefix("api", "v2", "ai") \o RestOf(req.path)])

\* a non-POST request on a /api/v1/ai/ path was re-issued
C12_PlainRestReached ==
    \E r \in Routers :
      /\ route_svc[r] = "ai-kernel" /\ route_req[r].method = "DELETE"
      /\ route_req[r].path = P("api", "v1", "ai", <<"x", "/", "y">>)
      /\ route_req[r].body = "b1" /\ route_pc[r] = "call"

\* ------------------------------------------------------------------ startup
\* the connection loop has handled every configured service
ConnectionsInitialised ==
    /\ Registered = ConfigNames
    /\ phase \in {"sweeping", "serving"} \/ (phase = "connecting" /\ idx = NumServices + 1)

\* the startup sweep has returned, having probed once every registered
\* service that has a channel or a client
InitialSweepComplete ==
    /\ phase = "serving"
    /\ idx = NumServices + 1
    /\ sweep_pc = "none"
    /\ \A n \in Registered :
         sweep_probes[n] = IF n \in grpc_channels \cup http_clients THEN 1 ELSE 0

\* C13: connection initialisation for all configured services completes
\* before the first health probe is issued, and the full initial sweep
\* completes before a routed request is handled: no routed request (or its
\* read of the registry) happens before the initial sweep has finished.
C13_StartupOrder ==
    /\ (phase = "sweeping" \/ \E n \in ConfigNames : sweep_probes[n] > 0)
         => ConnectionsInitialised
    /\ \A r \in Routers : route_pc[r] # "idle" => InitialSweepComplete

\* a routed request is being handled after a startup whose sweep recorded a
\* failure and a success
C13_Witness ==
    /\ lifespan = "on"
    /\ \E r \in Routers : route_pc[r] = "body"
    /\ \E n \in Registered : service_registry[n].status = DISCONNECTED
    /\ InitialSweepComplete

\* the services the claim names as required
C14_Required == {"ai-kernel", "identity", "cv-engine"}

\* C14: startup aborts if and only if establishing the connections of a
\* required service (ai-kernel, identity, cv-engine) fails; a failure for a
\* service that is not required leaves startup running, with that service
\* registered in status Starting; a failed health probe during the initial
\* sweep never aborts startup.
C14_AbortOnlyForRequired ==
    [][ /\ (phase = "connecting" /\ idx <= NumServices /\ << phase, idx >>' # << phase, idx >>)
           => LET cfg == ServiceConfig[idx]
                  failed == cfg.name \notin http_clients'
              IN  /\ (phase' = "aborted") <=> (failed /\ cfg.name \in C14_Required)
                  /\ (failed /\ cfg.name \notin C14_Required)
                       => /\ phase' = "connecting"
                          /\ idx' = idx + 1
                          /\ cfg.name \in DOMAIN service_registry'
                          /\ service_registry'[cfg.name].status = STARTING
        /\ phase' = "aborted" => phase \in {"connecting", "aborted"}
        /\ phase = "sweeping" => phase' \in {"sweeping", "serving"}
      ]_vars

\* startup completed although the connections of analytics failed and a
\* probe of the sweep failed
C14_Witness ==
    /\ lifespan = "on"
    /\ phase = "serving"
    /\ "analytics" \notin grpc_channels \cup http_clients
    /\ service_registry["analytics"].status = STARTING
    /\ \E n \in Registered : service_registry[n].health_check_failures = 1

\* startup was aborted
C14_Aborted == phase = "aborted"

\* ---------------------------------------------------------------- the sweep
\* the step is a probe step of the sweep on which the await raised, or the
\* response was not a 200
SweepProbeFails ==
    \/ \E outcome \in ReadyOutcomes : ReadyFailed(outcome) /\ SweepReady(outcome)
    \/ \E outcome \in HttpOutcomes : HttpFailed(outcome) /\ SweepHttp(outcome)

\* C15: the sweep always terminates and probes every registered service
\* exactly once, whatever fails or times out on the way: a failing probe
\* adds exactly one failure to the record of the probed service, changes no
\* other record and does not keep the remaining services from being probed;
\* no probe failure leaves health_check_services (the sweep returns and the
\* application starts to serve).
C15_SweepTerminates ==
    /\ [](\A n \in ConfigNames : sweep_probes[n] <= 1)
    /\ [](phase = "serving" => InitialSweepComplete)
    /\ [][ SweepProbeFails =>
             LET n == ServiceConfig[idx].name IN
             /\ service_registry'[n].health_check_failures =
                    service_registry[n].health_check_failures + 1
             /\ \A m \in Registered \ {n} : service_registry'[m] = service_registry[m]
             /\ DOMAIN service_registry' = Registered
             /\ phase' = "sweeping" ]_vars
    /\ (phase = "sweeping") ~> InitialSweepComplete

\* the sweep returned after the probe of the first service failed and the
\* probe of the last one succeeded
C15_Witness ==
    /\ InitialSweepComplete
    /\ service_registry["ai-kernel"].health_check_failures = 1
    /\ service_registry["analytics"].status = HEALTHY
    /\ \A n \in ConfigNames : sweep_probes[n] = 1

\* ------------------------------------------------- manual check and sweep
\* position of a configured name in the configuration
IndexOf(n) == CHOOSE i \in 1..NumServices : ServiceConfig[i].name = n

\* the await at which the sweep's probe of n starts: "ready", "http", or
\* "none" when the sweep passes over n
SweepFirstAwait(n) ==
    IF SweepEnter(IndexOf(n)).idx = IndexOf(n) THEN SweepEnter(IndexOf(n)).pc ELSE "none"

\* C16: for every registry state, service and probe outcome (readiness ok,
\* timeout or error; HTTP 200, non-200, timeout or error; channel or client
\* absent), a manual health check leaves the service's record (status,
\* failure counter, last-check time) exactly as the sweep's probe of that
\* service would, and makes the same calls in the same order.
C16_ManualEqualsSweep ==
    [][ \A c \in Checkers :
          /\ \A name \in CheckNames \cap Registered :
               ManualCheckStart(c, name)
                 => /\ service_registry' = service_registry
                    /\ check_pc'[c] = IF SweepFirstAwait(name) = "none"
                                      THEN "done" ELSE SweepFirstAwait(name)
          /\ \A outcome \in ReadyOutcomes :
               ManualCheckReady(c, outcome)
                 => LET n == check_name[c] IN
                    /\ service_registry'[n] =
                           sweep_probe_ready(service_registry[n], outcome, UtcNow)
                    /\ (check_pc'[c] = "http")
                         <=> (~ReadyFailed(outcome) /\ n \in http_clients)
                    /\ \A m \in Registered \ {n} : service_registry'[m] = service_registry[m]
          /\ \A outcome \in HttpOutcomes :
               ManualCheckHttp(c, outcome)
                 => LET n == check_name[c] IN
                    /\ service_registry'[n] =
                           sweep_probe_http(service_registry[n], outcome, UtcNow)
                    /\ check_pc'[c] = "done"
                    /\ \A m \in Registered \ {n} : service_registry'[m] = service_registry[m]
      ]_vars

\* a manual check of analytics, made after the startup sweep had probed every
\* service, got a 200 and stamped the record
C16_Witness ==
    \E c \in Checkers :
      /\ check_pc[c] = "done"
      /\ check_name[c] = "analytics"
      /\ check_resp[c] = CheckResponse("analytics", HEALTHY, "completed")
      /\ service_registry["analytics"].last_health_check = now
      /\ now > NumServices

\* --------------------------------------------------------- status changes
\* the step is a probe of n, by the sweep or by a manual check, that got a 200
ProbeSucceeds(n) ==
    \/ /\ phase = "sweeping" /\ idx <= NumServices /\ ServiceConfig[idx].name = n
       /\ SweepHttp("200")
    \/ \E c \in Checkers : check_name[c] = n /\ ManualCheckHttp(c, "200")

\* C17: a service becomes Healthy only by a successful probe, and leaves
\* Unhealthy only by a successful probe: once Unhealthy it stays Unhealthy,
\* its failure counter never decreasing, through failed probes and routed
\* requests until a probe succeeds.
C17_HealthyOnlyBySuccess ==
    [][ \A n \in Registered :
          /\ n \in DOMAIN service_registry'
          /\ (service_registry'[n].status = HEALTHY /\ service_registry[n].status # HEALTHY)
               => ProbeSucceeds(n)
          /\ (service_registry[n].status = UNHEALTHY /\ ~ProbeSucceeds(n))
               => /\ service_registry'[n].status = UNHEALTHY
                  /\ service_registry'[n].health_check_failures
                        >= service_registry[n].health_check_failures
      ]_vars

\* a service failed a probe after it had become Unhealthy, and a request
\* routed to it was refused
C17_Witness ==
    /\ "analytics" \in Registered
    /\ service_registry["analytics"].status = UNHEALTHY
    /\ service_registry["analytics"].health_check_failures = max_failures + 1
    /\ \E r \in Routers : route_pc[r] = "done" /\ route_resp[r] = NotAvailable("analytics")

\* ------------------------------------------------------- registry identity
\* the record of n carries the name and address it was configured with
ConfiguredIdentity(n) ==
    LET cfg == ServiceConfig[IndexOf(n)] IN
    /\ service_registry[n].name = n
    /\ service_registry[n].host = ServiceInfo(cfg).host
    /\ service_registry[n].grpc_port = cfg.grpc_port
    /\ service_registry[n].http_port = cfg.http_port

\* C18: after a successful startup the keys of the registry are the
\* configured service names and never change again: no sweep, manual check,
\* routed request or registry dump adds, removes or replaces a record, and
\* the name, host and ports of a record never change.
C18_RegistryIdentityStable ==
    /\ []((lifespan = "on" /\ phase = "serving")
            => /\ Registered = ConfigNames
               /\ \A n \in Registered : ConfiguredIdentity(n))
    /\ [][ /\ Registered \subseteq DOMAIN service_registry'
           /\ phase \in {"sweeping", "serving"} => DOMAIN service_registry' = Registered
           /\ \A n \in Registered :
                /\ service_registry'[n].name = service_registry[n].name
                /\ service_registry'[n].host = service_registry[n].host
                /\ service_registry'[n].grpc_port = service_registry[n].grpc_port
                /\ service_registry'[n].http_port = service_registry[n].http_port
         ]_vars

\* after startup a manual check has rewritten a record and a routed request
\* has been forwarded
C18_Witness ==
    /\ lifespan = "on"
    /\ phase = "serving"
    /\ Registered = ConfigNames
    /\ service_registry["analytics"].last_health_check > NumServices
    /\ \E r \in Routers : route_pc[r] = "done" /\ route_calls[r] # <<>>

\* ------------------------------------------------------------ the dispatch
\* the dispatch table as the claim gives it
C19_Rules ==
    { [service |-> "ai-kernel",
       prefixes |-> {Prefix("api", "v1", "ai"), Prefix("api", "v2", "ai")}],
      [service |-> "identity",
       prefixes |-> {Prefix("api", "v1", "auth"), Prefix("api", "v1", "users")}],
      [service |-> "cv-engine",
       prefixes |-> {Prefix("api", "v1", "cv"), Prefix("api", "v2", "cv")}],
      [service |-> "analytics",
       prefixes |-> {Prefix("api", "v1", "analytics"), Prefix("api", "v2", "analytics")}] }

\* the rules of the table a path matches
C19_Matching(path) ==
    {rule \in C19_Rules : \E pre \in rule.prefixes : StartsWith(path, pre)}

\* C19: a request is dispatched by the prefix of its path: /api/v1/ai/ and
\* /api/v2/ai/ to ai-kernel, /api/v1/auth/ and /api/v1/users/ to identity,
\* /api/v1/cv/ and /api/v2/cv/ to cv-engine, /api/v1/analytics/ and
\* /api/v2/analytics/ to analytics; any other path goes to the local handler
\* and gets its answer whatever the registry holds; a path matches at most
\* one rule, so the order of the rules does not matter.
C19_PrefixDispatch ==
    \A r \in Routers :
      route_pc[r] # "idle"
        => LET matching == C19_Matching(route_req[r].path) IN
           /\ Cardinality(matching) <= 1
           /\ \A rule \in matching : route_svc[r] = rule.service
           /\ matching = {}
                => /\ route_svc[r] = ""
                   /\ route_pc[r] = "done"
                   /\ route_resp[r] = LocalResponse
                   /\ route_calls[r] = <<>>

\* the health-check endpoint was answered locally while the registry was
\* empty
C19_Witness ==
    /\ Registered = {}
    /\ \E r \in Routers :
         /\ route_req[r].path =
               <<"/", "api", "/", "v2", "/", "services", "/", "cv-engine", "/", "health-check">>
         /\ route_resp[r] = LocalResponse

\* a request on a v2 path was dispatched to cv-engine
C19_RoutedReached ==
    \E r \in Routers :
      /\ route_req[r].path = P("api", "v2", "cv", <<"x">>)
      /\ route_svc[r] = "cv-engine" /\ route_pc[r] = "call"

\* ---------------------------------------------------------------- the probe
\* the failure counter of n grows by exactly one on the step
OneFailureMore(n) ==
    service_registry'[n].health_check_failures =
        service_registry[n].health_check_failures + 1

\* C20: a probe makes the RPC readiness check first and the HTTP GET /health
\* second; when readiness fails or times out, no HTTP call is issued in that
\* probe; an HTTP answer other than 200 counts as a failure; and every
\* failing probe adds exactly one to the failure counter, never nothing and
\* never two.
C20_ProbeOrder ==
    [][ /\ \A outcome \in ReadyOutcomes \ {"ok"} :
             /\ SweepReady(outcome)
                  => /\ OneFailureMore(ServiceConfig[idx].name)
                     /\ ~(sweep_pc' = "http" /\ idx' = idx)
             /\ \A c \in Checkers :
                  ManualCheckReady(c, outcome)
                    => /\ OneFailureMore(check_name[c])
                       /\ check_pc'[c] = "done"
        /\ \A outcome \in HttpOutcomes \ {"200"} :
             /\ SweepHttp(outcome) => OneFailureMore(ServiceConfig[idx].name)
             /\ \A c \in Checkers :
                  ManualCheckHttp(c, outcome) => OneFailureMore(check_name[c])
        /\ (/\ sweep_pc' = "http"
            /\ << idx, sweep_pc >>' # << idx, sweep_pc >>
            /\ ServiceConfig[idx'].name \in grpc_channels)
             => SweepReady("ok")
        /\ \A c \in Checkers :
             (/\ check_pc'[c] = "http"
              /\ check_pc[c] # "http"
              /\ check_name'[c] \in grpc_channels)
               => ManualCheckReady(c, "ok")
      ]_vars

\* a manual check of a service that has a channel and a client failed and
\* its answer shows the second failure of the service
C20_Witness ==
    \E c \in Checkers :
      /\ check_pc[c] = "done"
      /\ check_name[c] = "analytics"
      /\ "analytics" \in grpc_channels \cap http_clients
      /\ check_resp[c] = CheckResponse("analytics", DISCONNECTED, "failed")
      /\ service_registry["analytics"].health_check_failures = 2

\* ------------------------------------------------------------- no retries
\* C21: forwarding is never retried: a routed request causes at most one
\* outbound call to the backend, whether the call gets a response, times out
\* or fails with a transport error (and exactly one once the backend has
\* answered or the call has failed).
C21_NoRetry ==
    \A r \in Routers :
      /\ Len(route_calls[r]) <= 1
      /\ route_reply[r] # NoReply => Len(route_calls[r]) = 1

\* a forwarded call timed out and the request was answered after one call
C21_Witness ==
    \E r \in Routers :
      /\ route_pc[r] = "done"
      /\ route_reply[r].kind = "timeout"
      /\ Len(route_calls[r]) = 1

\* ------------------------------------------------------ registering again
\* the step is an iteration of the connection loop for a name that is
\* already registered
RegistersExisting(n) ==
    /\ phase = "connecting"
    /\ idx <= NumServices
    /\ ServiceConfig[idx].name = n
    /\ n \in Registered
    /\ << phase, idx >>' # << phase, idx >>

\* C22: registering a service whose name is already in the registry fails
\* (the registration raises, so the loop iteration takes its except branch
\* and creates no connection) and leaves the existing record, with its
\* status, failure counter and last_health_check, unchanged.
C22_DuplicateRejected ==
    [][ \A n \in ConfigNames :
          RegistersExisting(n) => service_registry'[n] = service_registry[n] ]_vars

\* a name was registered over its record of the run before
C22_Reregistered ==
    /\ startups = 2
    /\ phase = "connecting"
    /\ idx > 1
    /\ service_registry["ai-kernel"] = ServiceInfo(ServiceConfig[1])

\* ------------------------------------------- manual check of an unknown name
\* C23: a manual health check for a name that is not in the registry answers
\* 404 with detail "Service <name> not found"; it issues no probe (the
\* request never waits on a channel or an HTTP call) and leaves every
\* record of the registry unchanged.
C23_UnknownNameNotFound ==
    [][ \A c \in Checkers :
          /\ (check_pc[c] = "idle" /\ check_pc'[c] # "idle"
                 /\ check_name'[c] \notin Registered)
             => /\ check_pc'[c] = "done"
                /\ check_resp'[c] =
                       [status |-> 404,
                        body |-> <<"detail", "Service ", check_name'[c], " not found">>]
                /\ service_registry' = service_registry
                /\ now' = now
          /\ check_pc'[c] \in {"ready", "http"} => check_name'[c] \in Registered'
      ]_vars

\* an unknown name was checked while the registry holds the configured services
C23_Witness ==
    \E c \in Checkers :
      /\ lifespan = "on"
      /\ check_pc[c] = "done"
      /\ check_name[c] = "unknown"
      /\ check_resp[c].status = 404
      /\ Registered = ConfigNames

\* ------------------------------------------ the health gate and the call
\* the step issues the forwarded call of request r
CallIssued(r) == Len(route_calls'[r]) > Len(route_calls[r])

\* C24 as stated: at the moment a forwarded call is issued the target's
\* status in the registry is Healthy, also when a health check of that
\* service completed while the request awaited its body.
C24_HealthyWhenIssued ==
    [][ \A r \in Routers :
          CallIssued(r) => service_registry[route_svc[r]].status = HEALTHY ]_vars

\* C24: the target's status is Healthy when route_to_service reads it, before
\* it awaits the request body; nothing reads the status again, so the call is
\* issued for the service the request was gated on, whatever a health check
\* wrote to its record in between.
C24_HealthyWhenGated ==
    [][ \A r \in Routers :
          /\ (route_pc[r] = "idle" /\ route_pc'[r] = "body")
             => /\ route_svc'[r] \in Registered
                /\ service_registry[route_svc'[r]].status = HEALTHY
          /\ CallIssued(r)
             => /\ route_pc[r] = "body"
                /\ route_calls'[r] = << ForwardedCall(route_svc[r], route_req[r]) >>
                /\ route_svc'[r] = route_svc[r]
      ]_vars

\* a call is in flight to a service that a manual check marked Disconnected
\* while the request awaited its body
C24_Witness ==
    \E r \in Routers :
      /\ route_pc[r] = "call"
      /\ Len(route_calls[r]) = 1
      /\ route_svc[r] = "analytics"
      /\ service_registry["analytics"].status = DISCONNECTED

\* ------------------------------------------------- routing and the registry
\* C25: routing never mutates the registry: every step of a routed request,
\* whatever its outcome (404, 503, a backend response of any status, a
\* timeout, a transport error), leaves every record's status, failure
\* counter and last_health_check as they were; forwarding failures are not
\* counted.
C25_RoutingLeavesRegistry ==
    [][ (routeVars' # routeVars) =>
            /\ service_registry' = service_registry
            /\ streak' = streak
            /\ now' = now ]_vars

\* a forwarded call failed and the service is Healthy with no failure counted
C25_Witness ==
    \E r \in Routers :
      /\ route_pc[r] = "done"
      /\ route_reply[r].kind \in {"timeout", "error"}
      /\ route_svc[r] \in Registered
      /\ service_registry[route_svc[r]].status = HEALTHY
      /\ service_registry[route_svc[r]].health_check_failures = 0

\* --------------------------------------------- the registry when traffic starts
\* C26: when the gateway begins accepting traffic (the startup sweep has
\* finished and no manual check has run yet) no service is Unhealthy and
\* every failure counter is at most 1: a service with an HTTP client is
\* Healthy with counter 0 or Disconnected with counter 1, and a service is
\* still Starting only if it has no HTTP client.
C26_RegistryAtFirstTraffic ==
    (Accepting /\ checks = 0) =>
        \A n \in Registered :
          LET info == service_registry[n] IN
          /\ info.status # UNHEALTHY
          /\ info.health_check_failures <= 1
          /\ n \in http_clients =>
                \/ info.status = HEALTHY /\ info.health_check_failures = 0
                \/ info.status = DISCONNECTED /\ info.health_check_failures = 1
          /\ info.status = STARTING => n \notin http_clients

\* traffic starts with one service Disconnected after its failed probe, one
\* Healthy, and one still Starting because it has no client
C26_Witness ==
    /\ Accepting
    /\ checks = 0
    /\ Registered = ConfigNames
    /\ \E n \in http_clients :
         /\ service_registry[n].status = DISCONNECTED
         /\ service_registry[n].health_check_failures = 1
    /\ \E n \in http_clients : service_registry[n].status = HEALTHY
    /\ \E n \in ConfigNames \ http_clients : service_registry[n].status = STARTING

\* ------------------------------------------------------ the shape of a record
\* C27: in every reachable state each record satisfies: Disconnected exactly
\* when 1 <= failures < 3; Unhealthy exactly when failures >= 3; Starting
\* implies failures = 0 and no last_health_check; and last_health_check is
\* set whenever the status is Healthy, Disconnected or Unhealthy.
C27_RecordShape ==
    \A n \in Registered :
        LET info == service_registry[n]
            f == info.health_check_failures IN
        /\ info.status = DISCONNECTED <=> (1 <= f /\ f < 3)
        /\ info.status = UNHEALTHY <=> f >= 3
        /\ info.status = STARTING => (f = 0 /\ info.last_health_check = None)
        /\ info.status \in {HEALTHY, DISCONNECTED, UNHEALTHY}
              => info.last_health_check # None

\* a Healthy, a Disconnected and an Unhealthy record side by side, the
\* Unhealthy one past its third failure
C27_Witness ==
    /\ Registered = ConfigNames
    /\ \E n \in Registered :
         /\ service_registry[n].status = HEALTHY
         /\ service_registry[n].last_health_check # None
    /\ \E n \in Registered :
         /\ service_registry[n].status = DISCONNECTED
         /\ service_registry[n].health_check_failures = 1
    /\ service_registry["analytics"].status = UNHEALTHY
    /\ service_registry["analytics"].health_check_failures >= 3

\* ------------------------------------------------------- overlapping probes
\* the step is the completion of manual check c: its probe returned or
\* raised and the response is built
Completes(c) == check_pc[c] \in {"ready", "http"} /\ check_pc'[c] = "done"

\* the message of a manual check's response: "completed" or "failed"
Message(resp) == resp.body[6]

\* C28: when two probes of the same service overlap, the record after both
\* have completed is determined by completion order, not start order: when
\* the probe that completes last succeeded the service is Healthy with
\* counter 0, even though the other probe started later and failed; when it
\* failed after the other one's success the counter is 1 and the service
\* Disconnected; last_health_check never decreases.  (The record is Healthy
\* before the failing completion when nothing was written since the success.)
C28_LastCompletionWins ==
    [][ /\ \A c, d \in Checkers :
             (c # d /\ Completes(c) /\ check_pc[d] = "done"
                 /\ check_name[d] = check_name[c]
                 /\ check_name[c] \in http_clients)
             => LET n == check_name[c]
                    after == service_registry'[n] IN
                /\ Message(check_resp'[c]) = "completed"
                   => /\ after.status = HEALTHY
                      /\ after.health_check_failures = 0
                      /\ after.last_health_check = now'
                /\ (Message(check_resp'[c]) = "failed"
                       /\ Message(check_resp[d]) = "completed"
                       /\ service_registry[n].status = HEALTHY)
                   => /\ after.status = DISCONNECTED
                      /\ after.health_check_failures = 1
                      /\ after.last_health_check = now'
        /\ \A n \in Registered :
             service_registry'[n].last_health_check
                 >= service_registry[n].last_health_check
      ]_vars

\* two checks of analytics overlapped: the one that arrived first succeeded
\* and completed last, after the later arrival had failed, and the record is
\* Healthy with counter 0
C28_Witness ==
    \E c, d \in Checkers :
      /\ "analytics" \in Registered
      /\ check_pc[c] = "done" /\ check_pc[d] = "done"
      /\ check_name[c] = "analytics" /\ check_name[d] = "analytics"
      /\ check_seq[c] = 1 /\ check_seq[d] = 2
      /\ Message(check_resp[c]) = "completed"
      /\ Message(check_resp[d]) = "failed"
      /\ service_registry["analytics"].status = HEALTHY
      /\ service_registry["analytics"].health_check_failures = 0
      /\ service_registry["analytics"].last_health_check = now

\* the converse order: the later arrival succeeded first, the earlier one
\* failed last, and the counter is 1
C28_FailureLast ==
    \E c, d \in Checkers :
      /\ "analytics" \in Registered
      /\ check_pc[c] = "done" /\ check_pc[d] = "done"
      /\ check_name[c] = "analytics" /\ check_name[d] = "analytics"
      /\ check_seq[c] = 1 /\ check_seq[d] = 2
      /\ Message(check_resp[c]) = "failed"
      /\ Message(check_resp[d]) = "completed"
      /\ service_registry["analytics"].status = DISCONNECTED
      /\ service_registry["analytics"].health_check_failures = 1

====
